---- MODULE Spec2Model ----
(***************************************************************************)
(* Connect-or-create translation (createConnectOrCreateAndParams) on top   *)
(* of the Cypher query builder, and the "updated" subscription of the      *)
(* integration test.                                                       *)
(*                                                                         *)
(* Strings that are concatenated by the program (variable names, prefixes, *)
(* parameter names) are sequences of string tokens, so that                *)
(* `${varName}${index}` is <<varName tokens..., digit>> and two different   *)
(* ways of building the same text give the same value.  JavaScript objects *)
(* are sequences of [key, val] entries in insertion order.                 *)
(***************************************************************************)
EXTENDS Integers, Sequences, FiniteSets

\* Bounds of the model.
MaxItems == 2
MaxCalls == 2

(***************************************************************************)
(* Host-language helpers                                                   *)
(***************************************************************************)
Digits == <<"0", "1", "2", "3", "4", "5", "6", "7", "8", "9">>

\* Number formatting of a template literal: `${index}`.
RECURSIVE NumToString(_)
NumToString(n) ==
    IF n < 10 THEN <<Digits[n + 1]>>
    ELSE NumToString(n \div 10) \o <<Digits[(n % 10) + 1]>>

Range(s) == {s[i] : i \in 1..Len(s)}

RECURSIVE SelectIdx(_, _, _)
\* Positions i..Len(s) of s whose element is in the set keep.
SelectIdx(s, keep, i) ==
    IF i > Len(s) THEN <<>>
    ELSE (IF s[i] \in keep THEN <<s[i]>> ELSE <<>>) \o SelectIdx(s, keep, i + 1)

RECURSIVE Flat(_)
\* Array.prototype.flat of a sequence of sequences.
Flat(ss) == IF ss = <<>> THEN <<>> ELSE Head(ss) \o Flat(Tail(ss))

\* A value: a scalar or a list.
Scalar(s) == [list |-> FALSE, v |-> <<s>>]

\* asArray: a list stays, anything else is wrapped in a one-element list.
asArray(value) == IF value.list THEN value ELSE [list |-> TRUE, v |-> value.v]

\* Object.keys
Keys(obj) == [i \in 1..Len(obj) |-> obj[i].key]

HasKey(obj, k) == \E i \in 1..Len(obj) : obj[i].key = k

Get(obj, k) == obj[CHOOSE i \in 1..Len(obj) : obj[i].key = k].val

\* obj[k] = v: an existing key keeps its position, a new key goes last.
Put(obj, k, v) ==
    IF HasKey(obj, k)
    THEN [i \in 1..Len(obj) |-> IF obj[i].key = k THEN [key |-> k, val |-> v] ELSE obj[i]]
    ELSE Append(obj, [key |-> k, val |-> v])

RECURSIVE Spread(_, _)
\* { ...a, ...b }
Spread(a, b) == IF b = <<>> THEN a ELSE Spread(Put(a, Head(b).key, Head(b).val), Tail(b))

RECURSIVE omitFields(_, _)
\* omitFields(obj, fields): obj without the keys named in fields.
omitFields(obj, fields) ==
    IF obj = <<>> THEN <<>>
    ELSE (IF Head(obj).key \in Range(fields) THEN <<>> ELSE <<Head(obj)>>)
         \o omitFields(Tail(obj), fields)

(***************************************************************************)
(* The schema of the example: the referenced node type, the relationship   *)
(* properties and the relation field.                                      *)
(***************************************************************************)
Field(fieldName, dbPropertyName, typeName) ==
    [fieldName |-> fieldName, dbPropertyName |-> dbPropertyName, typeName |-> typeName,
     autogenerate |-> FALSE, callback |-> FALSE, timestamps |-> {}, array |-> FALSE]

IdField == [Field("id", "id", "ID") EXCEPT !.autogenerate = TRUE]
TitleField == Field("title", "title", "String")
\* name is an alias of the database property title.
NameField == Field("name", "title", "String")
TagsField == [Field("tags", "tags", "String") EXCEPT !.array = TRUE]
SlugField == [Field("slug", "slug", "String") EXCEPT !.callback = TRUE]
CreatedAtField == [Field("createdAt", "createdAt", "DateTime") EXCEPT !.timestamps = {"CREATE"}]
UpdatedAtField == [Field("updatedAt", "updatedAt", "DateTime") EXCEPT !.timestamps = {"UPDATE"}]
ReleasedField == [Field("released", "released", "Date") EXCEPT !.timestamps = {"CREATE"}]

\* The referenced node type; auth and the callback field vary.
RefNode(auth, callback) ==
    [name |-> "Movie",
     auth |-> auth,
     labels |-> <<"Movie">>,
     primitiveFields |-> <<IdField, TitleField, NameField, TagsField>>
                         \o (IF callback THEN <<SlugField>> ELSE <<>>),
     temporalFields |-> <<CreatedAtField, UpdatedAtField, ReleasedField>>]

\* constrainableFields of a node: its primitive and temporal fields.
constrainableFields(n) == n.primitiveFields \o n.temporalFields

RoleField == Field("role", "role", "String")
SinceField == [Field("since", "since", "DateTime") EXCEPT !.timestamps = {"CREATE"}]
RelIdField == [Field("key", "key", "ID") EXCEPT !.autogenerate = TRUE]

\* context.relationships: one relationship without properties, one with.
Relationships ==
    <<[name |-> "Directed", properties |-> "", primitiveFields |-> <<>>, temporalFields |-> <<>>],
      [name |-> "ActedIn", properties |-> "ActedInProps",
       primitiveFields |-> <<RoleField, RelIdField>>, temporalFields |-> <<SinceField>>]>>

\* The parent node type.
ParentRefNode == [name |-> "Actor"]

(***************************************************************************)
(* Inputs                                                                  *)
(***************************************************************************)
Obj1(k, v) == <<[key |-> k, val |-> Scalar(v)]>>
Obj2(k1, v1, k2, v2) == Obj1(k1, v1) \o Obj1(k2, v2)

WhereChoices == {<<>>, Obj2("id", "a", "tags", "b")}
OnCreateNodeChoices == {<<>>, Obj2("id", "b", "name", "a")}
OnCreateEdgeChoices == {<<>>, Obj2("since", "a", "role", "b")}

\* An item whose onCreate sets the property title twice, through title and its alias.
ConflictItem ==
    [where |-> <<>>, onCreateNode |-> Obj2("title", "a", "name", "b"), onCreateEdge |-> <<>>]

Items ==
    {[where |-> w, onCreateNode |-> n, onCreateEdge |-> e] :
        w \in WhereChoices, n \in OnCreateNodeChoices, e \in OnCreateEdgeChoices}
    \cup {ConflictItem}

RECURSIVE SeqsUpTo(_, _)
\* The sequences over S of length at most n.
SeqsUpTo(S, n) ==
    IF n = 0 THEN {<<>>}
    ELSE LET shorter == SeqsUpTo(S, n - 1)
         IN  shorter \cup {Append(s, x) : s \in shorter, x \in S}

Inputs == SeqsUpTo(Items, MaxItems)

VARIABLES input, varName, parentVar, withVars, context, refNode, relationField

inputVars == <<input, varName, parentVar, withVars, context, refNode, relationField>>

\* The call: its position, the statements made, the build's environment and
\* remaining clauses, the error thrown, the results returned so far.
VARIABLES pc, idx, statements, env, todo, error, results, calls

callVars == <<pc, idx, statements, env, todo, error, results, calls>>

\* The update subscription: the nodes of the subscribed type in the database,
\* the subscription of the websocket client, the events published to it and
\* not yet delivered, the events and errors it holds, the server's clock, and
\* the mutations performed so far.
VARIABLES db, subscription, inflight, events, errors, clock, mutations

subscriptionVars == <<db, subscription, inflight, events, errors, clock, mutations>>

vars == <<inputVars, callVars, subscriptionVars>>

(***************************************************************************)
(* References, parameters and clauses of the query builder (constructors). *)
(* A reference is identified by the place that constructed it: role, item  *)
(* and key; hint is its name string (empty for an unnamed reference).      *)
(***************************************************************************)
Ref(kind, role, item, key, hint) ==
    [kind |-> kind, role |-> role, item |-> item, key |-> key, hint |-> hint]

NamedVariable(role, item, key, name) == Ref("NamedVariable", role, item, key, name)
NamedNode(role, item, name) == Ref("NamedNode", role, item, "", name)
RelationshipRef(item) == Ref("Relationship", "relationship", item, "", <<>>)

Param(role, item, key, value) ==
    [kind |-> "Param", role |-> role, item |-> item, key |-> key, name |-> <<>>, value |-> value]
NamedParam(role, item, name, value) ==
    [kind |-> "NamedParam", role |-> role, item |-> item, key |-> "", name |-> name, value |-> value]

\* new RawCypher("text")
RawText(text) == [kind |-> "RawCypher", fn |-> "text", text |-> text]

Undefined == [type |-> "undefined"]

\* filterTruthy
filterTruthy(clauses) == SelectSeq(clauses, LAMBDA c : c # Undefined)

\* Mutant: a nested composite is followed by a separator of its own.
concatBlankAfterNested(clauses) ==
    [type |-> "Composite",
     children |-> Flat([k \in 1..Len(filterTruthy(clauses)) |->
                          IF filterTruthy(clauses)[k].type = "Composite"
                          THEN <<filterTruthy(clauses)[k], [type |-> "Composite", children |-> <<>>]>>
                          ELSE <<filterTruthy(clauses)[k]>>])]

\* concat(...clauses): a composite of the defined clauses, joined by line breaks.
concat(clauses) == [type |-> "Composite", children |-> filterTruthy(clauses)]

\* convertToCypherParams: one Param per entry, wrapping the entry's value.
convertToCypherParams(obj, role, item) ==
    [i \in 1..Len(obj) |->
        [key |-> obj[i].key, val |-> Param(role, item, obj[i].key, obj[i].val)]]

(***************************************************************************)
(* src/unnamed/part_000: the helpers of createConnectOrCreateAndParams     *)
(***************************************************************************)
\* node?.constrainableFields.find((f) => f.fieldName === key); <<>> when none.
FindField(fields, key) ==
    LET hits == SelectSeq(fields, LAMBDA f : f.fieldName = key)
    IN  IF hits = <<>> THEN <<>> ELSE <<Head(hits)>>

RECURSIVE CypherParameterObject(_, _)
\* The reduce of getCypherParameters: entries re-keyed by database property.
CypherParameterObject(onCreateParams, node) ==
    IF onCreateParams = <<>> THEN <<>>
    ELSE LET n == Len(onCreateParams)
             e == onCreateParams[n]
             acc == CypherParameterObject(SubSeq(onCreateParams, 1, n - 1), node)
             nodeField == FindField(constrainableFields(node), e.key)
             nodeFieldName ==
                 IF nodeField = <<>> THEN ""
                 ELSE IF nodeField[1].dbPropertyName # "" THEN nodeField[1].dbPropertyName
                 ELSE nodeField[1].fieldName
             fieldName == IF nodeFieldName # "" THEN nodeFieldName ELSE e.key
             valueOrArray ==
                 IF nodeField # <<>> /\ nodeField[1].array THEN asArray(e.val) ELSE e.val
         IN  Put(acc, fieldName, valueOrArray)

getCypherParameters(onCreateParams, node, role, item) ==
    convertToCypherParams(CypherParameterObject(onCreateParams, node), role, item)

\* String.prototype.toLowerCase on the temporal type names.
toLowerCase(typeName) ==
    CASE typeName = "DateTime" -> "datetime"
      [] typeName = "Time" -> "time"
      [] typeName = "Date" -> "date"
      [] OTHER -> typeName

RECURSIVE AutogeneratedFields(_)
AutogeneratedFields(fields) ==
    IF fields = <<>> THEN <<>>
    ELSE LET n == Len(fields)
             field == fields[n]
             acc == AutogeneratedFields(SubSeq(fields, 1, n - 1))
         IN  IF field.autogenerate /\ field.dbPropertyName # ""
             THEN Put(acc, field.dbPropertyName, RawText(<<"randomUUID()">>))
             ELSE acc

RECURSIVE AutogeneratedTemporalFields(_)
AutogeneratedTemporalFields(fields) ==
    IF fields = <<>> THEN <<>>
    ELSE LET n == Len(fields)
             field == fields[n]
             acc == AutogeneratedTemporalFields(SubSeq(fields, 1, n - 1))
         IN  IF /\ field.typeName \in {"DateTime", "Time"}
                /\ "CREATE" \in field.timestamps
                /\ field.dbPropertyName # ""
             THEN Put(acc, field.dbPropertyName,
                      RawText(<<toLowerCase(field.typeName), "()">>))
             ELSE acc

getAutogeneratedParams(node) ==
    Spread(AutogeneratedTemporalFields(node.temporalFields),
           AutogeneratedFields(node.primitiveFields))

getCallbackFields(node) == SelectSeq(node.primitiveFields, LAMBDA f : f.callback)

\* Mutant: the index is left out of the base name.
subqueryBaseNameWithoutIndex(name, index) == name

\* `${varName}${index}`
subqueryBaseName(name, index) == name \o NumToString(index)

(***************************************************************************)
(* Collaborators of the translation from other modules of the package,     *)
(* modelled from their contracts in the specification.                     *)
(***************************************************************************)
\* The database property an input field name is stored under.
DbPropertyOf(node, fieldName) ==
    LET f == FindField(constrainableFields(node), fieldName)
    IN  IF f = <<>> \/ f[1].dbPropertyName = "" THEN fieldName ELSE f[1].dbPropertyName

\* findConflictingProperties: the input fields that assign the same property
\* as another input field with a different value, in input order.
findConflictingProperties(node, obj) ==
    LET clash(i) ==
            \E j \in 1..Len(obj) :
                /\ j # i
                /\ DbPropertyOf(node, obj[j].key) = DbPropertyOf(node, obj[i].key)
                /\ obj[j].val # obj[i].val
        hits == {i \in 1..Len(obj) : clash(i)}
    IN  SelectIdx(Keys(obj), {obj[i].key : i \in hits}, 1)

\* addCallbackAndSetParamCypher: the property to set and a raw fragment that
\* names the callback's parameter after the rendered name of the variable.
addCallbackAndSetParamCypher(field, variable, parent, operation, node) ==
    IF ~field.callback \/ operation # "CREATE" THEN <<>>
    ELSE <<[target |-> node, key |-> field.dbPropertyName,
            value |-> [kind |-> "RawCypher", fn |-> "callback", variable |-> variable,
                       field |-> field.fieldName]]>>

\* filterMetaVariable: the names other than meta.
filterMetaVariable(names) == SelectSeq(names, LAMBDA n : n # <<"meta">>)

\* createAuthAndParams: the predicate over the variable and its parameters,
\* named after chainStr.
createAuthAndParams(entity, name, chainStr) ==
    [predicate |-> name \o <<".owner = $">> \o chainStr \o <<"_auth_id">>,
     params |-> <<[key |-> chainStr \o <<"_auth_id">>, val |-> Scalar("sub")]>>]

AUTH_FORBIDDEN_ERROR == <<"@neo4j/graphql/FORBIDDEN">>

(***************************************************************************)
(* src/unnamed/part_000: mergeStatement and its callers                    *)
(***************************************************************************)
\* Mutant: the defaults of the keys given in where are kept.
UnsetAutogeneratedParamsKeepAll(autogeneratedParams, whereNodeParameters) ==
    omitFields(autogeneratedParams, <<>>)

\* omitFields(autogeneratedParams, Object.keys(whereNodeParameters))
UnsetAutogeneratedParams(autogeneratedParams, whereNodeParameters) ==
    omitFields(autogeneratedParams, Keys(whereNodeParameters))

\* Mutant: the spread in the other order, the defaults last.
RawNodeParamsDefaultsLast(unsetAutogeneratedParams, onCreateNodeParameters) ==
    Spread(onCreateNodeParameters, unsetAutogeneratedParams)

\* const rawNodeParams = { ...unsetAutogeneratedParams, ...onCreateNodeParameters }
RawNodeParams(unsetAutogeneratedParams, onCreateNodeParameters) ==
    Spread(unsetAutogeneratedParams, onCreateNodeParameters)

\* The defaults of the relationship whose properties the relation field names.
AutogeneratedRelationshipParams ==
    LET relationshipFields ==
            SelectSeq(context.relationships, LAMBDA x : x.properties = relationField.properties)
    IN  IF relationshipFields # <<>> THEN getAutogeneratedParams(Head(relationshipFields))
        ELSE <<>>

\* Mutant: the spread in the other order, the defaults last.
RawRelationshipParamsDefaultsLast(autogeneratedRelationshipParams, rawOnCreateRelationshipParams) ==
    Spread(rawOnCreateRelationshipParams, autogeneratedRelationshipParams)

\* const rawRelationshipParams = { ...autogenerated..., ...rawOnCreate... }
RawRelationshipParams(autogeneratedRelationshipParams, rawOnCreateRelationshipParams) ==
    Spread(autogeneratedRelationshipParams, rawOnCreateRelationshipParams)

\* new CypherBuilder.Relationship({ source, target, type })
Relationship(direction, node, parentNode, type, item) ==
    [ref |-> RelationshipRef(item),
     source |-> IF direction = "IN" THEN node ELSE parentNode,
     target |-> IF direction = "IN" THEN parentNode ELSE node,
     type |-> type]

\* Object.entries(params).map(([key, param]) => [ref.property(key), param])
PropertyPairs(target, params) ==
    [k \in 1..Len(params) |-> [target |-> target, key |-> params[k].key, value |-> params[k].val]]

\* The subscription clause of mergeStatement: a callback that reads the
\* rendered names of the relationship, its source and its target.
RelEventClause(relationship, name) ==
    [type |-> "RawCypher", fn |-> "relEventMeta",
     relVariable |-> relationship.ref,
     fromVariable |-> relationship.source,
     toVariable |-> relationship.target,
     typename |-> relationField.type,
     fromTypename |-> IF relationField.direction = "IN" THEN refNode.name ELSE ParentRefNode.name,
     toTypename |-> IF relationField.direction = "IN" THEN ParentRefNode.name ELSE refNode.name,
     vars |-> filterMetaVariable(withVars \o <<name>>)]

\* Mutant: the subscription clause comes before the two Merge clauses.
MergeStatementClausesEventFirst(merge, relationshipMerge, withClause) ==
    concat(<<withClause, merge, relationshipMerge>>)

\* return CypherBuilder.concat(merge, relationshipMerge, withClause)
MergeStatementClauses(merge, relationshipMerge, withClause) ==
    concat(<<merge, relationshipMerge, withClause>>)

mergeStatement(item, i, parentNode, name) ==
    LET whereNodeParameters == getCypherParameters(item.where, refNode, "where", i)
        onCreateNodeParameters == getCypherParameters(item.onCreateNode, refNode, "onCreateNode", i)
        autogeneratedParams == getAutogeneratedParams(refNode)
        node == NamedNode("node", i, name)
        unsetAutogeneratedParams ==
            UnsetAutogeneratedParams(autogeneratedParams, whereNodeParameters)
        callbackFields == getCallbackFields(refNode)
        callbackParams ==
            Flat([k \in 1..Len(callbackFields) |->
                    addCallbackAndSetParamCypher(
                        callbackFields[k],
                        NamedVariable("varNameVariable", i, callbackFields[k].fieldName, name),
                        parentNode, "CREATE", node)])
        rawNodeParams == RawNodeParams(unsetAutogeneratedParams, onCreateNodeParameters)
        onCreateParams == PropertyPairs(node, rawNodeParams)
        merge == [type |-> "Merge", kind |-> "node", node |-> node, labels |-> refNode.labels,
                  parameters |-> whereNodeParameters,
                  onCreate |-> onCreateParams \o callbackParams]
        autogeneratedRelationshipParams == AutogeneratedRelationshipParams
        rawOnCreateRelationshipParams == convertToCypherParams(item.onCreateEdge, "onCreateEdge", i)
        rawRelationshipParams ==
            RawRelationshipParams(autogeneratedRelationshipParams, rawOnCreateRelationshipParams)
        relationship == Relationship(relationField.direction, node, parentNode, relationField.type, i)
        onCreateRelationshipParams == PropertyPairs(relationship.ref, rawRelationshipParams)
        relationshipMerge == [type |-> "Merge", kind |-> "relationship",
                              relationship |-> relationship,
                              onCreate |-> onCreateRelationshipParams]
        withClause == IF context.subscriptionsEnabled THEN RelEventClause(relationship, name)
                      ELSE Undefined
    IN  MergeStatementClauses(merge, relationshipMerge, withClause)

createAuthStatement(node, nodeName, i) ==
    IF ~node.auth THEN Undefined
    ELSE LET auth == createAuthAndParams(node, nodeName, nodeName \o <<node.name, "_allow">>)
         IN  IF auth.predicate = <<>> THEN Undefined
             ELSE [type |-> "RawCypher", fn |-> "auth",
                   predicate |-> auth.predicate,
                   message |-> AUTH_FORBIDDEN_ERROR,
                   params |-> [k \in 1..Len(auth.params) |->
                                 NamedParam("auth", i, auth.params[k].key, auth.params[k].val)]]

\* new CypherBuilder.With("*")
WithStar == [type |-> "With", columns |-> <<[star |-> TRUE]>>]

createConnectOrCreatePartialStatement(item, i, baseName) ==
    LET mergeQuery == mergeStatement(item, i, NamedNode("parentNode", i, parentVar), baseName)
        authQuery == createAuthStatement(refNode, baseName, i)
    IN  IF authQuery # Undefined THEN concat(<<mergeQuery, WithStar, authQuery>>)
        ELSE mergeQuery

\* withVars.map((name) => new CypherBuilder.NamedVariable(name))
WithVarsVariables(names) ==
    [k \in 1..Len(names) |-> NamedVariable("withVar", k, "", names[k])]

\* The conflict check of one item: the error message, or <<>> when none.
ConflictError(item) ==
    LET conflictingProperties == findConflictingProperties(refNode, item.onCreateNode)
        named == [k \in 1..Len(conflictingProperties) |->
                    (IF k > 1 THEN <<", ">> ELSE <<>>)
                    \o <<"[[", conflictingProperties[k], "]]">>]
    IN  IF Len(conflictingProperties) > 0
        THEN <<"Conflicting modification of ">> \o Flat(named) \o <<" on type ", refNode.name>>
        ELSE <<>>

\* The RETURN expression of a wrapped query: a callback read at render time.
CountResult ==
    RawText(IF context.subscriptionsEnabled THEN <<"meta as update_meta">>
            ELSE <<"COUNT(*) AS _">>)

Column(ref) == [star |-> FALSE, ref |-> ref, alias |-> <<>>]

\* One iteration of statements.map: WITH + CALL { statement RETURN ... }; with
\* subscriptions the composite made by the unused concat call becomes the
\* parent of the returned clause.
WrapStatement(statement, i, withColumns, importWith) ==
    LET returnStatement == [type |-> "Return", columns |-> <<CountResult>>]
        withStatement ==
            [type |-> "With",
             columns |-> [k \in 1..Len(withColumns) |-> Column(withColumns[k])]]
        callStatement == [type |-> "Call", subQuery |-> concat(<<statement, returnStatement>>),
                          importWith |-> importWith]
        subqueryClause == concat(<<withStatement, callStatement>>)
        afterCallWithStatement ==
            [type |-> "With",
             columns |-> <<[star |-> TRUE],
                           [star |-> FALSE,
                            ref |-> NamedVariable("update_meta", i, "", <<"update_meta">>),
                            alias |-> <<"meta">>]>>]
    IN  [clause |-> subqueryClause,
         parent |-> IF context.subscriptionsEnabled
                    THEN concat(<<subqueryClause, afterCallWithStatement>>)
                    ELSE Undefined]

\* Mutant: innerWith is given variables made anew from the names.
WrappedQueryFreshImports(statement, i, withVarsVariables) ==
    WrapStatement(statement, i, withVarsVariables,
                  [k \in 1..Len(withVarsVariables) |->
                     NamedVariable("importVar", i, "", withVarsVariables[k].hint)])

\* With(...withVarsVariables) and innerWith(...withVarsVariables) take the same objects.
WrappedQuery(statement, i, withVarsVariables) ==
    WrapStatement(statement, i, withVarsVariables, withVarsVariables)

\* Clause.getRoot: the outermost composite a clause was made a child of.
getRoot(c) == IF c.parent = Undefined THEN c.clause ELSE c.parent

\* const query = CypherBuilder.concat(...wrappedQueries)
Query(stmts) ==
    concat([i \in 1..Len(stmts) |->
              getRoot(WrappedQuery(stmts[i], i, WithVarsVariables(withVars)))])

\* query.build(`${varName}_`)
BuildPrefix(name) == name \o <<"_">>

(***************************************************************************)
(* The renderer: a clause tree in document order, as rendering units (one  *)
(* per leaf clause) of text, references and parameters.                    *)
(***************************************************************************)
T(s) == [k |-> "t", s |-> <<s>>]
TT(tokens) == [k |-> "t", s |-> tokens]
\* A reference rendered by a clause.
R(ref) == [k |-> "ref", ref |-> ref, raw |-> FALSE]
\* A reference whose name a raw fragment's callback reads (getCypher(env)).
Read(ref) == [k |-> "ref", ref |-> ref, raw |-> TRUE]
P(param) == [k |-> "param", param |-> param]
NL == [k |-> "nl"]

Unit(tag, depth, protos) == [tag |-> tag, depth |-> depth, protos |-> protos]

\* xs[1] sep xs[2] sep ... (each xs[i] a sequence of pieces)
Join(xs, sep) ==
    Flat([k \in 1..Len(xs) |-> (IF k > 1 THEN <<sep>> ELSE <<>>) \o xs[k]])

ValueProtos(value) ==
    CASE value.kind = "Param" -> <<P(value)>>
      [] value.kind = "RawCypher" /\ value.fn = "text" -> <<TT(value.text)>>
      [] value.kind = "RawCypher" /\ value.fn = "callback" ->
            <<T("$resolvedCallbacks."), Read(value.variable), T("_"), T(value.field)>>

\* ON CREATE SET a.k = v, ...
OnCreateProtos(onCreate) ==
    IF onCreate = <<>> THEN <<>>
    ELSE <<NL, T("ON CREATE SET ")>>
         \o Join([k \in 1..Len(onCreate) |->
                    <<R(onCreate[k].target), T("."), T(onCreate[k].key), T(" = ")>>
                    \o ValueProtos(onCreate[k].value)], T(", "))

\* { k: $p, ... }
MapProtos(parameters) ==
    IF parameters = <<>> THEN <<>>
    ELSE <<T(" { ")>>
         \o Join([k \in 1..Len(parameters) |->
                    <<T(parameters[k].key), T(": "), P(parameters[k].val)>>], T(", "))
         \o <<T(" }")>>

MergeProtos(c) ==
    IF c.kind = "node"
    THEN <<T("MERGE ("), R(c.node), T(":"), TT(c.labels)>> \o MapProtos(c.parameters)
         \o <<T(")")>> \o OnCreateProtos(c.onCreate)
    ELSE <<T("MERGE ("), R(c.relationship.source), T(")-["), R(c.relationship.ref), T(":"),
           TT(c.relationship.type), T("]->("), R(c.relationship.target), T(")")>>
         \o OnCreateProtos(c.onCreate)

ColumnProtos(col) ==
    IF col.star THEN <<T("*")>>
    ELSE <<R(col.ref)>> \o (IF col.alias = <<>> THEN <<>> ELSE <<T(" AS "), TT(col.alias)>>)

WithProtos(columns) ==
    <<T("WITH ")>> \o Join([k \in 1..Len(columns) |-> ColumnProtos(columns[k])], T(", "))

\* createRelEventMeta and the WITH line around it.
RelEventProtos(c) ==
    <<T("WITH { event: connect, relationship: "), Read(c.relVariable),
      T(", from: "), Read(c.fromVariable), T(", to: "), Read(c.toVariable),
      T(", typename: "), TT(c.typename), T(", fromTypename: "), T(c.fromTypename),
      T(", toTypename: "), T(c.toTypename), T(" } AS meta, ")>>
    \o Join([k \in 1..Len(c.vars) |-> <<TT(c.vars[k])>>], T(", "))

AuthProtos(c) ==
    <<T("CALL apoc.util.validate(NOT ("), TT(c.predicate), T("), "), TT(c.message),
      T(", [0])"), [k |-> "extra", params |-> c.params]>>

RECURSIVE Units(_, _)
\* The rendering units of a clause at a nesting depth, in document order.
Units(c, depth) ==
    CASE c.type = "Composite" ->
            IF c.children = <<>> THEN <<Unit("Empty", depth, <<>>)>>
            ELSE Flat([k \in 1..Len(c.children) |-> Units(c.children[k], depth)])
      [] c.type = "Call" ->
            <<Unit("CallOpen", depth, <<T("CALL {")>>)>>
            \o (IF c.importWith = <<>> THEN <<>>
                ELSE <<Unit("ImportWith", depth + 1,
                            WithProtos([k \in 1..Len(c.importWith) |-> Column(c.importWith[k])]))>>)
            \o Units(c.subQuery, depth + 1)
            \o <<Unit("CallClose", depth, <<T("}")>>)>>
      [] c.type = "Merge" ->
            <<Unit(IF c.kind = "node" THEN "MergeNode" ELSE "MergeRelationship", depth,
                   MergeProtos(c))>>
      [] c.type = "With" -> <<Unit("With", depth, WithProtos(c.columns))>>
      [] c.type = "Return" ->
            <<Unit("Return", depth, <<T("RETURN ")>> \o ValueProtos(c.columns[1]))>>
      [] c.type = "RawCypher" /\ c.fn = "relEventMeta" ->
            <<Unit("RelEvent", depth, RelEventProtos(c))>>
      [] c.type = "RawCypher" /\ c.fn = "auth" -> <<Unit("Auth", depth, AuthProtos(c))>>

(***************************************************************************)
(* The Environment: the naming authority of one build (specification 4.1)  *)
(* and the parameter accumulator.                                          *)
(***************************************************************************)
FreshEnvironment(prefix) ==
    [prefix |-> prefix, refs |-> <<>>, params |-> <<>>, table |-> <<>>,
     out |-> <<>>, line |-> <<>>, uses |-> <<>>]

Known(e, ref) == \E i \in 1..Len(e.refs) : e.refs[i].ref = ref

NameOf(e, ref) == e.refs[CHOOSE i \in 1..Len(e.refs) : e.refs[i].ref = ref].name

Taken(e, name) == \E i \in 1..Len(e.refs) : e.refs[i].name = name

\* A hint made a valid identifier.
Sanitize(hint) == [i \in 1..Len(hint) |-> IF hint[i] = "-" THEN "_" ELSE hint[i]]

RECURSIVE Disambiguate(_, _, _)
\* base with the first numeric suffix, from n on, that no reference has.
Disambiguate(e, base, n) ==
    IF ~Taken(e, base \o NumToString(n)) THEN base \o NumToString(n)
    ELSE Disambiguate(e, base, n + 1)

\* Mutant: a reference is named by its sanitized hint, taken or not.
AllocateNameVerbatim(e, ref) == Sanitize(IF ref.hint = <<>> THEN <<"this">> ELSE ref.hint)

\* The name allocated at the first encounter of a reference.
AllocateName(e, ref) ==
    LET base == Sanitize(IF ref.hint = <<>> THEN <<"this">> ELSE ref.hint)
    IN  IF ~Taken(e, base) THEN base ELSE Disambiguate(e, base, 0)

\* Mutant: every request allocates again, and the new name replaces the old.
nameForAllocatingAgain(e, ref) ==
    [e EXCEPT !.refs = Append(SelectSeq(@, LAMBDA x : x.ref # ref),
                              [ref |-> ref, name |-> AllocateName(e, ref)])]

\* nameFor: the environment after the reference was asked for.
nameFor(e, ref) ==
    IF Known(e, ref) THEN e
    ELSE [e EXCEPT !.refs = Append(@, [ref |-> ref, name |-> AllocateName(e, ref)])]

KnownParam(e, p) == \E i \in 1..Len(e.params) : e.params[i].param = p

ParamEntry(e, p) == e.params[CHOOSE i \in 1..Len(e.params) : e.params[i].param = p]

\* The name a parameter is bound under: its own, or prefix + "param" + index.
ParamId(e, p) ==
    IF p.kind = "NamedParam" THEN [pre |-> <<>>, s |-> p.name]
    ELSE [pre |-> e.prefix,
          s |-> <<"param">>
                \o NumToString(Len(SelectSeq(e.params, LAMBDA x : x.param.kind = "Param")))]

\* The environment after a parameter was rendered: bound at first encounter.
addParam(e, p) ==
    IF KnownParam(e, p) THEN e
    ELSE LET id == ParamId(e, p)
         IN  [e EXCEPT !.params = Append(@, [param |-> p, pre |-> id.pre, s |-> id.s]),
                       !.table = Put(@, id.pre \o id.s, p.value)]

RECURSIVE addExtraParams(_, _)
addExtraParams(e, ps) ==
    IF ps = <<>> THEN e ELSE addExtraParams(addParam(e, Head(ps)), Tail(ps))

Piece(k, pre, s) == [k |-> k, pre |-> pre, s |-> s]

\* One element of a unit rendered: text emitted, a name or parameter allocated.
RenderProto(e, p, tag) ==
    CASE p.k = "t" -> [e EXCEPT !.line = Append(@, Piece("t", <<>>, p.s))]
      [] p.k = "ref" ->
            LET e1 == nameFor(e, p.ref)
                n == NameOf(e1, p.ref)
            IN  [e1 EXCEPT !.line = Append(@, Piece("name", <<>>, n)),
                           !.uses = Append(@, [ref |-> p.ref, name |-> n, at |-> tag,
                                               raw |-> p.raw,
                                               first |-> ~Known(e, p.ref)])]
      [] p.k = "param" ->
            LET e1 == addParam(e, p.param)
                x == ParamEntry(e1, p.param)
            IN  [e1 EXCEPT !.line = Append(@, Piece("param", x.pre, x.s))]
      [] p.k = "extra" -> addExtraParams(e, p.params)
      [] p.k = "nl" -> e

\* A line break, or the end of a clause, closes the current line.
CloseLine(e, depth) ==
    [e EXCEPT !.out = Append(@, [indent |-> depth, toks |-> e.line]), !.line = <<>>]

\* One element of a unit: a line break closes the line, anything else is rendered.
RenderElement(e, p, tag, depth) ==
    IF p.k = "nl" THEN CloseLine(e, depth) ELSE RenderProto(e, p, tag)

RECURSIVE RenderElements(_, _, _, _, _, _)
\* The elements lo..hi of a unit, in order.
RenderElements(e, protos, tag, depth, lo, hi) ==
    IF lo > hi THEN e
    ELSE IF lo = hi THEN RenderElement(e, protos[lo], tag, depth)
    ELSE LET mid == (lo + hi) \div 2
             left == RenderElements(e, protos, tag, depth, lo, mid)
         IN  \* the elements before are rendered before the elements after
             IF left.prefix = e.prefix
             THEN RenderElements(left, protos, tag, depth, mid + 1, hi)
             ELSE left

\* The elements of a unit in order; the end of the unit closes the current line.
RenderProtos(e, protos, tag, depth) ==
    CloseLine(RenderElements(e, protos, tag, depth, 1, Len(protos)), depth)

RenderUnit(e, u) == RenderProtos(e, u.protos, u.tag, u.depth)

RECURSIVE RenderRange(_, _, _, _)
\* The units lo..hi of a tree, in document order.
RenderRange(e, units, lo, hi) ==
    IF lo > hi THEN e
    ELSE IF lo = hi THEN RenderUnit(e, units[lo])
    ELSE LET mid == (lo + hi) \div 2
             left == RenderRange(e, units, lo, mid)
         IN  \* the clauses before are rendered before the clauses after
             IF left.prefix = e.prefix THEN RenderRange(left, units, mid + 1, hi) ELSE left

\* getCypher of a whole tree: its units in document order under one environment.
RenderUnits(e, units) == RenderRange(e, units, 1, Len(units))

\* The CypherResult of an environment that rendered the tree.
CypherResult(e) == [query |-> e.out, params |-> e.table]

\* clause.build(prefix): a fresh environment, one pass over the tree.
build(clause, prefix) == CypherResult(RenderUnits(FreshEnvironment(prefix), Units(clause, 0)))

(***************************************************************************)
(* State of a call of createConnectOrCreateAndParams                       *)
(***************************************************************************)
VarNames == {<<"this", "_movies">>}
WithVarsChoices == {<<<<"this">>, <<"x">>>>}
OtherPrefix == <<"q_">>

\* Before the test: an empty database, a client without subscription.
SubscriptionInit ==
    /\ db = <<>>
    /\ subscription = "none"
    /\ inflight = <<>>
    /\ events = <<>>
    /\ errors = <<>>
    /\ clock = 0
    /\ mutations = <<>>

Init ==
    /\ SubscriptionInit
    /\ input \in Inputs
    /\ varName \in VarNames
    /\ parentVar = <<"this">>
    /\ withVars \in WithVarsChoices
    /\ context \in [subscriptionsEnabled : BOOLEAN, relationships : {Relationships}]
    /\ refNode \in {RefNode(a, c) : a \in BOOLEAN, c \in BOOLEAN}
    /\ relationField \in [direction : {"IN", "OUT"}, type : {<<"ACTED_IN">>},
                          properties : {"ActedInProps", ""}]
    /\ pc = "validate"
    /\ idx = 1
    /\ statements = <<>>
    /\ env = FreshEnvironment(<<>>)
    /\ todo = <<>>
    /\ error = <<>>
    /\ results = <<>>
    /\ calls = 1

\* Mutant: only the first item is checked for conflicts.
ValidateFirstItemOnly ==
    /\ pc = "validate"
    /\ idx <= Len(input)
    /\ LET message == ConflictError(input[idx])
       IN  IF message # <<>>
           THEN /\ pc' = "error"
                /\ error' = message
                /\ idx' = idx
           ELSE /\ idx' = Len(input) + 1
                /\ UNCHANGED <<pc, error>>
    /\ UNCHANGED <<inputVars, subscriptionVars, statements, env, todo, results, calls>>

\* One iteration of the conflict check: throw, or go on to the next item.
ValidateItem ==
    /\ pc = "validate"
    /\ idx <= Len(input)
    /\ LET message == ConflictError(input[idx])
       IN  IF message # <<>>
           THEN /\ pc' = "error"
                /\ error' = message
                /\ idx' = idx
           ELSE /\ idx' = idx + 1
                /\ UNCHANGED <<pc, error>>
    /\ UNCHANGED <<inputVars, subscriptionVars, statements, env, todo, results, calls>>

\* Every item passed the check: on to the statements.
Validated ==
    /\ pc = "validate"
    /\ idx > Len(input)
    /\ pc' = "construct"
    /\ idx' = 1
    /\ UNCHANGED <<inputVars, subscriptionVars, statements, env, todo, error, results, calls>>

\* One iteration of asArray(input).map: the partial statement of an item.
ConstructStatement ==
    /\ pc = "construct"
    /\ idx <= Len(input)
    /\ statements' = Append(statements,
                            createConnectOrCreatePartialStatement(
                                input[idx], idx, subqueryBaseName(varName, idx - 1)))
    /\ idx' = idx + 1
    /\ UNCHANGED <<inputVars, subscriptionVars, pc, env, todo, error, results, calls>>

\* Mutant: the environment of the previous build is kept, only its text is cleared.
StartBuildStaleEnvironment ==
    /\ pc = "construct"
    /\ idx > Len(input)
    /\ todo' = Units(Query(statements), 0)
    /\ env' = [env EXCEPT !.prefix = BuildPrefix(varName), !.out = <<>>, !.line = <<>>,
                          !.table = <<>>, !.uses = <<>>]
    /\ pc' = "render"
    /\ UNCHANGED <<inputVars, subscriptionVars, idx, statements, error, results, calls>>

\* The wrapped queries are concatenated and build starts with a fresh environment.
StartBuild ==
    /\ pc = "construct"
    /\ idx > Len(input)
    /\ todo' = Units(Query(statements), 0)
    /\ env' = FreshEnvironment(BuildPrefix(varName))
    /\ pc' = "render"
    /\ UNCHANGED <<inputVars, subscriptionVars, idx, statements, error, results, calls>>

\* The next clause in document order is rendered.
Render ==
    /\ pc = "render"
    /\ todo # <<>>
    /\ env' = RenderUnit(env, Head(todo))
    /\ todo' = Tail(todo)
    /\ UNCHANGED <<inputVars, subscriptionVars, pc, idx, statements, error, results, calls>>

\* build returns the CypherResult.
Return ==
    /\ pc = "render"
    /\ todo = <<>>
    /\ results' = Append(results, [prefix |-> env.prefix, query |-> env.out,
                                   params |-> env.table])
    /\ pc' = "done"
    /\ UNCHANGED <<inputVars, subscriptionVars, idx, statements, env, todo, error, calls>>

\* The function is called again with equal inputs.
CallAgain ==
    /\ pc = "done"
    /\ calls < MaxCalls
    /\ calls' = calls + 1
    /\ pc' = "validate"
    /\ idx' = 1
    /\ statements' = <<>>
    /\ UNCHANGED <<inputVars, subscriptionVars, env, todo, error, results>>

\* The same tree is built again, under the same or another prefix.
Rebuild ==
    /\ pc = "done"
    /\ calls < MaxCalls
    /\ calls' = calls + 1
    /\ \E p \in {BuildPrefix(varName), OtherPrefix} :
          env' = FreshEnvironment(p)
    /\ todo' = Units(Query(statements), 0)
    /\ pc' = "render"
    /\ UNCHANGED <<inputVars, subscriptionVars, idx, statements, error, results>>

Next ==
    \/ ValidateItem
    \/ Validated
    \/ ConstructStatement
    \/ StartBuild
    \/ Render
    \/ Return

Spec == Init /\ [][Next]_vars

NextTwice ==
    \/ Next
    \/ CallAgain
    \/ Rebuild

SpecTwice == Init /\ [][NextTwice]_vars

(***************************************************************************)
(* src/unnamed/part_000: the update subscription test. The server (schema, *)
(* subscription plugin, websocket) lives in other modules and is modelled  *)
(* from what the test expects of it.                                       *)
(***************************************************************************)
MaxMutations == 4

Titles == {"movie1", "movie2", "movie3"}

\* type Movie, and type Actor @exclude(operations: [SUBSCRIBE])
Types == {"Movie", "Actor"}
ExcludedFromSubscribe == {"Actor"}

\* The event a mutation publishes for a node.
Event(kind, typename, before, after, timestamp) ==
    [event |-> kind, typename |-> typename, previousState |-> before, updated |-> after,
     timestamp |-> timestamp]

\* Mutant: every node the where matches counts as changed.
ChangedNodesMatched(nodes, oldTitle, newTitle) ==
    SelectSeq([i \in 1..Len(nodes) |-> i], LAMBDA i : nodes[i].title = oldTitle)

\* The nodes an update changes: those the where matches and whose properties
\* the update gives another value.
ChangedNodes(nodes, oldTitle, newTitle) ==
    SelectSeq([i \in 1..Len(nodes) |-> i],
              LAMBDA i : nodes[i].title = oldTitle /\ nodes[i].title # newTitle)

\* The events an update mutation publishes: one per changed node.
UpdateEvents(nodes, oldTitle, newTitle, timestamp) ==
    LET changed == ChangedNodes(nodes, oldTitle, newTitle)
    IN  [k \in 1..Len(changed) |->
            Event("UPDATE", "Movie", nodes[changed[k]], [title |-> newTitle], timestamp)]

\* The events a create mutation publishes.
CreateEvents(title, timestamp) ==
    <<Event("CREATE", "Movie", <<>>, [title |-> title], timestamp)>>

\* Mutant: the updated subscription passes every event of its type.
UpdatedSubscriptionAnyEvent(published) ==
    SelectSeq(published, LAMBDA e : e.typename = subscription)

\* The events of the published ones that the client's updated subscription
\* selects: the UPDATE events of the subscribed type.
UpdatedSubscription(published) ==
    SelectSeq(published, LAMBDA e : e.event = "UPDATE" /\ e.typename = subscription)

InitSubscription ==
    /\ SubscriptionInit
    /\ input = <<>>
    /\ varName = <<"this", "_movies">>
    /\ parentVar = <<"this">>
    /\ withVars = <<<<"this">>>>
    /\ context = [subscriptionsEnabled |-> TRUE, relationships |-> Relationships]
    /\ refNode = RefNode(FALSE, FALSE)
    /\ relationField = [direction |-> "OUT", type |-> <<"ACTED_IN">>, properties |-> ""]
    /\ pc = "validate"
    /\ idx = 1
    /\ statements = <<>>
    /\ env = FreshEnvironment(<<>>)
    /\ todo = <<>>
    /\ error = <<>>
    /\ results = <<>>
    /\ calls = 1

\* wsClient.subscribe to the updated subscription of a type: refused with an
\* error for a type excluded from SUBSCRIBE.
Subscribe(type) ==
    /\ subscription = "none"
    /\ errors = <<>>
    /\ IF type \in ExcludedFromSubscribe
       THEN /\ errors' = Append(errors, type)
            /\ UNCHANGED subscription
       ELSE /\ subscription' = type
            /\ UNCHANGED errors
    /\ UNCHANGED <<inputVars, callVars, db, inflight, events, clock, mutations>>

\* createMovie(title): the create mutation.
createMovie(title) ==
    /\ clock < MaxMutations
    /\ clock' = clock + 1
    /\ db' = Append(db, [title |-> title])
    /\ inflight' = inflight \o UpdatedSubscription(CreateEvents(title, clock'))
    /\ mutations' = Append(mutations, [op |-> "create", title |-> title, before |-> db,
                                       listening |-> subscription, timestamp |-> clock'])
    /\ UNCHANGED <<inputVars, callVars, subscription, events, errors>>

\* updateMovie(oldTitle, newTitle): the update mutation.
updateMovie(oldTitle, newTitle) ==
    /\ clock < MaxMutations
    /\ clock' = clock + 1
    /\ db' = [i \in 1..Len(db) |->
                IF db[i].title = oldTitle THEN [db[i] EXCEPT !.title = newTitle] ELSE db[i]]
    /\ inflight' = inflight \o UpdatedSubscription(UpdateEvents(db, oldTitle, newTitle, clock'))
    /\ mutations' = Append(mutations, [op |-> "update", oldTitle |-> oldTitle,
                                       title |-> newTitle, before |-> db,
                                       listening |-> subscription, timestamp |-> clock'])
    /\ UNCHANGED <<inputVars, callVars, subscription, events, errors>>

\* The websocket delivers the next event to the client.
Deliver ==
    /\ inflight # <<>>
    /\ events' = Append(events, Head(inflight))
    /\ inflight' = Tail(inflight)
    /\ UNCHANGED <<inputVars, callVars, db, subscription, errors, clock, mutations>>

NextSubscription ==
    \/ \E type \in Types : Subscribe(type)
    \/ \E title \in Titles : createMovie(title)
    \/ \E oldTitle, newTitle \in Titles : updateMovie(oldTitle, newTitle)
    \/ Deliver

SpecSubscription == InitSubscription /\ [][NextSubscription]_vars

(***************************************************************************)
(* Properties                                                              *)
(***************************************************************************)
\* The references and parameters of a sequence of units.
UnitRefs(units) ==
    UNION {{units[u].protos[k].ref :
               k \in {k \in 1..Len(units[u].protos) : units[u].protos[k].k = "ref"}} :
           u \in 1..Len(units)}

UnitParams(units) ==
    UNION {{units[u].protos[k].param :
               k \in {k \in 1..Len(units[u].protos) : units[u].protos[k].k = "param"}}
           \cup UNION {Range(units[u].protos[k].params) :
               k \in {k \in 1..Len(units[u].protos) : units[u].protos[k].k = "extra"}} :
           u \in 1..Len(units)}

\* The references reachable from the tree built from the statements.
TreeRefs == UnitRefs(Units(Query(statements), 0))
TreeParams == UnitParams(Units(Query(statements), 0))

C2_StableNames ==
    /\ \A i, j \in 1..Len(env.uses) :
          env.uses[i].ref = env.uses[j].ref => env.uses[i].name = env.uses[j].name
    /\ \A i \in 1..Len(env.uses) :
          Known(env, env.uses[i].ref) /\ NameOf(env, env.uses[i].ref) = env.uses[i].name

\* C2 witness: the subscription callback has read a node that a Merge clause
\* rendered before it.
C2_Witness ==
    \E i, j \in 1..Len(env.uses) :
        /\ i < j
        /\ env.uses[i].at = "MergeNode"
        /\ env.uses[j].at = "RelEvent"
        /\ env.uses[i].ref = env.uses[j].ref

\* An item whose onCreate node properties conflict.
HasConflict(item) == findConflictingProperties(refNode, item.onCreateNode) # <<>>

\* The first conflicting item of the input (0 when there is none).
FirstConflict ==
    IF \E i \in 1..Len(input) : HasConflict(input[i])
    THEN CHOOSE i \in 1..Len(input) :
            HasConflict(input[i]) /\ \A j \in 1..(i - 1) : ~HasConflict(input[j])
    ELSE 0

\* C3: when some item of the input, at any position, has conflicting onCreate
\* node properties, the call never gets past the conflict check: no statement
\* is constructed, nothing is rendered, no result is returned, and the error
\* thrown names every conflicting field of the item and the type.
C3_ConflictBeforeStatements ==
    FirstConflict # 0 =>
        /\ pc \in {"validate", "error"}
        /\ idx <= FirstConflict
        /\ statements = <<>> /\ env.out = <<>> /\ env.refs = <<>> /\ results = <<>>
        /\ pc = "error" =>
              LET fields == findConflictingProperties(refNode, input[FirstConflict].onCreateNode)
              IN  /\ \A k \in 1..Len(fields) :
                        \E m \in 1..(Len(error) - 2) :
                            error[m] = "[[" /\ error[m + 1] = fields[k] /\ error[m + 2] = "]]"
                  /\ error[Len(error)] = refNode.name

\* C3 witness: the error was thrown for the second item, after a first item
\* without conflict.
C3_Witness ==
    /\ pc = "error"
    /\ FirstConflict = 2
    /\ Len(error) > 0

\* The parameters the input of item i gives rise to.
InputParams(i) ==
    {x.val : x \in Range(getCypherParameters(input[i].where, refNode, "where", i))}
    \cup {x.val : x \in Range(getCypherParameters(input[i].onCreateNode, refNode, "onCreateNode", i))}
    \cup {x.val : x \in Range(convertToCypherParams(input[i].onCreateEdge, "onCreateEdge", i))}

\* C4: when the build is done, the where, onCreate node and onCreate edge
\* parameters of every item are in the built tree with the input's values, and
\* every parameter of the tree (the auth parameters included) has exactly one
\* entry of the returned table, under its own name, holding its value; so the
\* table has as many entries as the tree has parameters.
C4_ParametersBound ==
    pc = "done" =>
        LET table == results[Len(results)].params
        IN  /\ \A i \in 1..Len(input) : InputParams(i) \subseteq TreeParams
            /\ \A i \in 1..Len(input) : \A e \in Range(input[i].onCreateEdge) :
                  \E q \in TreeParams : q.item = i /\ q.key = e.key /\ q.value = e.val
            /\ \A q \in TreeParams :
                  /\ KnownParam(env, q)
                  /\ LET x == ParamEntry(env, q)
                     IN  /\ Cardinality({k \in 1..Len(table) : table[k].key = x.pre \o x.s}) = 1
                         /\ Get(table, x.pre \o x.s) = q.value
            /\ \A q1, q2 \in TreeParams :
                  q1 # q2 => LET x1 == ParamEntry(env, q1)
                                 x2 == ParamEntry(env, q2)
                             IN  x1.pre \o x1.s # x2.pre \o x2.s
            /\ Len(table) = Cardinality(TreeParams)

\* C4 witness: a finished build with an auth parameter and with two parameters
\* of two items that wrap the same value of the same key.
C4_Witness ==
    /\ pc = "done"
    /\ \E q \in TreeParams : q.kind = "NamedParam"
    /\ \E q1, q2 \in TreeParams :
          /\ q1.kind = "Param" /\ q2.kind = "Param"
          /\ q1.item # q2.item /\ q1.role = q2.role /\ q1.key = q2.key
          /\ q1.value = q2.value

\* A composite one level down: the children of a statement's composites.
ClauseChildren(c) == IF c.type = "Composite" THEN Range(c.children) ELSE {}

\* Clauses of the call to compose: the statements (nested composites of Merge,
\* RawCypher and WITH clauses), WITH * and an empty composite.
ClausePool == Range(statements) \cup {WithStar, concat(<<>>)}

\* The rendering of a clause: text, parameter table and assigned names.
Rendering(clause) ==
    LET e == RenderUnits(FreshEnvironment(BuildPrefix(varName)), Units(clause, 0))
    IN  [query |-> e.out, params |-> e.table, names |-> e.refs]

Text(s) == Piece("t", <<>>, <<s>>)

\* The line WITH n1, n2, ... for rendered names.
WithLine(names) ==
    <<Text("WITH ")>>
    \o Flat([k \in 1..Len(names) |->
               (IF k > 1 THEN <<Text(", ")>> ELSE <<>>) \o <<Piece("name", <<>>, names[k])>>])

\* The positions of the query's CALL { lines.
CallLines(query) == {j \in 1..Len(query) : query[j].toks = <<Text("CALL {")>>}

\* C6: in the built query every CALL { line directly follows a WITH line that
\* lists the withVars variables, its next line, one level deeper, is the import
\* line listing exactly the same variables under the same rendered names, and
\* there is one such block per input item.
C6_ImportsKeepNames ==
    pc = "done" =>
        LET query == results[Len(results)].query
            variables == WithVarsVariables(withVars)
            names == [k \in 1..Len(variables) |-> NameOf(env, variables[k])]
        IN  /\ Cardinality(CallLines(query)) = Len(input)
            /\ \A j \in CallLines(query) :
                  /\ j > 1 /\ j < Len(query)
                  /\ query[j - 1] = [indent |-> query[j].indent, toks |-> WithLine(names)]
                  /\ query[j + 1] = [indent |-> query[j].indent + 1, toks |-> WithLine(names)]

\* C6 witness: a finished build with two CALL blocks importing two variables.
C6_Witness ==
    /\ pc = "done"
    /\ Len(withVars) = 2
    /\ Cardinality(CallLines(results[Len(results)].query)) = 2

\* The merge statement inside the partial statement of an item.
MergeQueryOf(statement) ==
    IF statement.children[1].type = "Composite" THEN statement.children[1] ELSE statement

\* The ON CREATE SET assignments of key k in a Merge clause.
Assignments(merge, k) == SelectSeq(merge.onCreate, LAMBDA x : x.key = k)

\* C7: in every constructed statement, a key that has a generated default and
\* an explicit onCreate value is assigned exactly once in the ON CREATE SET of
\* the merged node, to the parameter of the explicit value; likewise for the
\* merged relationship and the onCreate edge values.
C7_ExplicitWins ==
    \A i \in 1..Len(statements) :
        LET nodeMerge == MergeQueryOf(statements[i]).children[1]
            relationshipMerge == MergeQueryOf(statements[i]).children[2]
            explicitNode == CypherParameterObject(input[i].onCreateNode, refNode)
            explicitEdge == input[i].onCreateEdge
        IN  /\ \A k \in Range(Keys(explicitNode)) \cap Range(Keys(getAutogeneratedParams(refNode))) :
                  /\ Len(Assignments(nodeMerge, k)) = 1
                  /\ Assignments(nodeMerge, k)[1].value.kind = "Param"
                  /\ Assignments(nodeMerge, k)[1].value.value = Get(explicitNode, k)
            /\ \A k \in Range(Keys(explicitEdge)) \cap Range(Keys(AutogeneratedRelationshipParams)) :
                  /\ Len(Assignments(relationshipMerge, k)) = 1
                  /\ Assignments(relationshipMerge, k)[1].value.kind = "Param"
                  /\ Assignments(relationshipMerge, k)[1].value.value = Get(explicitEdge, k)

\* C7 witness: a statement was constructed for an item that gives the
\* generated id and the relationship's CREATE timestamp explicitly.
C7_Witness ==
    \E i \in 1..Len(statements) :
        /\ HasKey(input[i].onCreateNode, "id")
        /\ HasKey(input[i].onCreateEdge, "since")
        /\ HasKey(AutogeneratedRelationshipParams, "since")
        /\ HasKey(getAutogeneratedParams(refNode), "id")

\* The keys of an item that have a generated default and an explicit value:
\* on the node through where or onCreate, on the relationship through the edge.
NodeOverlap(item) ==
    (Range(Keys(CypherParameterObject(item.where, refNode)))
       \cup Range(Keys(CypherParameterObject(item.onCreateNode, refNode))))
    \cap Range(Keys(getAutogeneratedParams(refNode)))

EdgeOverlap(item) ==
    Range(Keys(item.onCreateEdge)) \cap Range(Keys(AutogeneratedRelationshipParams))

Overlaps(item) == NodeOverlap(item) \cup EdgeOverlap(item) # {}

\* C8 as stated: an input with an item in which a generated default and an
\* explicit value overlap is flagged as a conflict error, so the call never
\* gets past the conflict check and no statement is constructed for it.
C8_OverlapIsConflict ==
    (\E i \in 1..Len(input) : Overlaps(input[i])) =>
        /\ pc \in {"validate", "error"}
        /\ statements = <<>>

\* C8 amended: an overlap is never flagged. An error is thrown only for an
\* item whose onCreate node fields assign one property different values. In
\* every constructed statement a key given in where has no default in the
\* ON CREATE SET of the merged node (it is assigned there only when onCreate
\* gives it too, once, to the explicit value) and is matched on the explicit
\* value; a default without explicit value is assigned once, to the default.
C8_OverlapResolvedSilently ==
    /\ pc = "error" => HasConflict(input[idx])
    /\ \A i \in 1..Len(statements) :
          LET nodeMerge == MergeQueryOf(statements[i]).children[1]
              whereNode == CypherParameterObject(input[i].where, refNode)
              explicitNode == CypherParameterObject(input[i].onCreateNode, refNode)
              defaults == getAutogeneratedParams(refNode)
          IN  /\ ~HasConflict(input[i])
              /\ \A k \in Range(Keys(whereNode)) \cap Range(Keys(defaults)) :
                    /\ \A a \in Range(Assignments(nodeMerge, k)) : a.value.kind = "Param"
                    /\ Len(Assignments(nodeMerge, k)) = (IF HasKey(explicitNode, k) THEN 1 ELSE 0)
                    /\ Get(nodeMerge.parameters, k).value = Get(whereNode, k)
              /\ \A k \in Range(Keys(defaults)) \ NodeOverlap(input[i]) :
                    /\ Len(Assignments(nodeMerge, k)) = 1
                    /\ Assignments(nodeMerge, k)[1].value = Get(defaults, k)

\* C8 witness: the call returned a result for an item whose where gives the
\* generated id and whose onCreate does not.
C8_Witness ==
    /\ pc = "done"
    /\ \E i \in 1..Len(statements) :
          /\ "id" \in NodeOverlap(input[i])
          /\ HasKey(input[i].where, "id")
          /\ ~HasKey(input[i].onCreateNode, "id")

\* A query text without the prefixes of its parameter names.
ErasePrefix(query) ==
    [j \in 1..Len(query) |->
        [indent |-> query[j].indent,
         toks |-> [t \in 1..Len(query[j].toks) |-> [query[j].toks[t] EXCEPT !.pre = <<>>]]]]

\* The values of a parameter table, in order.
TableValues(table) == [k \in 1..Len(table) |-> table[k].val]

\* The pieces of a query text.
Pieces(query) == UNION {Range(query[j].toks) : j \in 1..Len(query)}

Published == events \o inflight

\* The nodes an update mutation of the history changed.
ChangedBy(m) ==
    {i \in 1..Len(m.before) : m.before[i].title = m.oldTitle /\ m.before[i].title # m.title}

MatchedBy(m) == {i \in 1..Len(m.before) : m.before[i].title = m.oldTitle}

\* An update of the history, seen by the client, that matched a node and left
\* every field of it at its previous value.
UnchangedUpdate(m) ==
    /\ m.op = "update"
    /\ m.listening = "Movie"
    /\ MatchedBy(m) # {}
    /\ m.title = m.oldTitle

RECURSIVE ChangesUpTo(_)
\* The number of node updates, among the first n mutations, that changed a
\* field value while the client was subscribed.
ChangesUpTo(n) ==
    IF n = 0 THEN 0
    ELSE ChangesUpTo(n - 1)
         + (IF mutations[n].op = "update" /\ mutations[n].listening = "Movie"
            THEN Cardinality({i \in MatchedBy(mutations[n]) :
                                 mutations[n].before[i].title # mutations[n].title})
            ELSE 0)

RECURSIVE Sorted(_)
\* The numbers of a finite set in increasing order.
Sorted(S) ==
    IF S = {} THEN <<>>
    ELSE LET least == CHOOSE x \in S : \A y \in S : x <= y
         IN  <<least>> \o Sorted(S \ {least})

\* The positions of the lines that close a CALL block.
CloseLines(query) == {j \in 1..Len(query) : query[j].toks = <<Text("}")>>}

\* The positions of the lines that merge a node under the rendered name.
MergeNodeLines(query, name) ==
    {j \in 1..Len(query) :
        /\ Len(query[j].toks) >= 3
        /\ query[j].toks[1] = Text("MERGE (")
        /\ query[j].toks[2] = Piece("name", <<>>, name)
        /\ query[j].toks[3] = Text(":")}

\* The variables the sub-statement of item i introduces: its merged node and
\* its relationship.
MergedNode(i) == NamedNode("node", i, subqueryBaseName(varName, i - 1))
IntroducedBy(i) == {MergedNode(i), RelationshipRef(i)}

FirstEncounters ==
    LET firsts == SelectSeq(env.uses, LAMBDA u : u.first)
    IN  [k \in 1..Len(firsts) |-> firsts[k].ref]

\* Use i reads a reference that a clause rendered earlier in document order.
VisitedBefore(i) ==
    \E j \in 1..(i - 1) :
        /\ env.uses[j].ref = env.uses[i].ref
        /\ ~env.uses[j].raw

UpdateMetaVariable(i) == NamedVariable("update_meta", i, "", <<"update_meta">>)

\* The line WITH *, name AS meta.
UpdateMetaLine(name) ==
    [indent |-> 0,
     toks |-> <<Text("WITH "), Text("*"), Text(", "), Piece("name", <<>>, name),
                Text(" AS "), Text("meta")>>]

\* The line RETURN text, one level inside a CALL block.
ReturnLine(text) == [indent |-> 1, toks |-> <<Text("RETURN "), Text(text)>>]

\* The lines of a query that name or mention update_meta.
MentionsUpdateMeta(line) ==
    \E t \in 1..Len(line.toks) :
        \/ line.toks[t].s = <<"meta as update_meta">>
        \/ /\ line.toks[t].k = "name"
           /\ Len(line.toks[t].s) >= 1
           /\ line.toks[t].s[1] = "update_meta"

====
